---- MODULE Spec2Model ----
(***************************************************************************)
(* Model of Transcriber/main.py (class TranscriberGUI): the text cleaner,  *)
(* the two SRT writers, the unique-path resolver and the batch handler     *)
(* transcribe.                                                             *)
(*                                                                         *)
(* Strings are sequences of one-character strings.  Times are carried in   *)
(* integer milliseconds (the source holds float seconds).                  *)
(***************************************************************************)
EXTENDS Integers, Sequences, FiniteSets, TLC

\* ------------------------------------------------------------------ bounds
\* longest text handed to clean_text in the cleaner specification
MaxTextLen == 4
\* longest raw "Characters to remove" filter string in the cleaner specification
MaxFilterLen == 3
\* most words one engine result yields (all segments together)
MaxWords == 3
\* most segments one engine result yields
MaxSegs == 2
\* largest character budget tried
MaxLimit == 3
\* most calls of get_unique_filename in the resolver specification
MaxCalls == 3
\* most input files selected for one batch
MaxFiles == 2
\* most cues one engine result yields in the batch specification
MaxCues == 1

\* the characters texts and filter strings are built from
Chars == {"a", "b", " "}

RECURSIVE StringsUpTo(_)
StringsUpTo(n) ==
    IF n = 0 THEN {<<>>}
    ELSE LET shorter == StringsUpTo(n - 1)
         IN  shorter \cup {Append(s, c) : s \in {x \in shorter : Len(x) = n - 1}, c \in Chars}

None == "None"
\* `current_start = None`
NoStart == -1
\* no segment bound yet
NoSegment == [none |-> TRUE]

VARIABLES
    chars_to_remove,   \* self.chars_to_remove: the raw filter string
    text_in,           \* cleaner specification: the text t
    clean1,            \* clean_text(t)
    clean2,            \* clean_text(clean_text(t))
    cpc,               \* cleaner specification: how many times clean_text ran
    char_limit,        \* self.char_limit
    wpc,               \* writers: position ("start", "word_loop", "word_done", "sent_loop", "sent_done")
    segment,           \* the loop variable `segment` (None before the first iteration)
    current_text,      \* create_word_srt: the pending buffer
    current_start,     \* create_word_srt: the pending start (None when unset)
    subtitle_count,    \* the cue counter of the running writer
    out,               \* the cues written to output_file so far
    f_open,            \* whether the handle f is open
    n_segs,            \* number of segments the engine result has yielded so far
    n_words,           \* number of words the engine result has yielded so far
    last_start,        \* start time of the latest word (segment) yielded
    cur_words,         \* history: the cleaned words held in current_text
    packed,            \* history: for each cue of out, the cleaned words it was packed from
    consumed,          \* history: every non-empty cleaned word, in document order
    contrib_end,       \* history: end of the last segment that gave a non-empty cleaned word
    fs,                \* the files on disk: path -> content
    calls,             \* resolver specification, history: the calls of get_unique_filename
    pending,           \* resolver specification: a returned path not created yet
    files,             \* self.files: the selected input files
    output_dir,        \* self.output_dir ("" when none is selected)
    word_level_var,    \* self.word_level_var
    sentence_level_var, \* self.sentence_level_var
    error_var,         \* self.error_var: the status message
    progress,          \* self.progress['value']
    pc,                \* transcribe: position of the handler
    mode,              \* transcribe: the half of the loop body ("word" or "sentence")
    i,                 \* transcribe: the loop index, counted from 1
    total_files,       \* transcribe: total_files
    word_model,        \* transcribe: whether word_model is loaded
    sentence_model,    \* transcribe: whether sentence_model is loaded
    result,            \* transcribe: the engine's result, as the number of cues it yields
    path,              \* transcribe: word_srt_path / sent_srt_path
    handles,           \* the output paths with an open handle
    log,               \* history: engine calls, resolutions, opens, closes and the raise
    failed_at          \* history: the loop indices at which an exception was raised

cleanVars == <<text_in, clean1, clean2, cpc>>
writerVars == <<char_limit, wpc, segment, current_text, current_start, subtitle_count,
                out, f_open, n_segs, n_words, last_start, cur_words, packed, consumed,
                contrib_end>>

\* what the cleaner specification, and the writers, leave alone
resolveVars == <<calls, pending>>
batchVars == <<files, output_dir, word_level_var, sentence_level_var, error_var, progress,
               pc, mode, i, total_files, word_model, sentence_model, result, path,
               handles, log, failed_at>>
notCleaner == <<writerVars, fs, resolveVars, batchVars>>
notWriter == <<cleanVars, fs, resolveVars, batchVars>>
notResolver == <<chars_to_remove, cleanVars, writerVars, batchVars>>
notBatch == <<chars_to_remove, cleanVars, writerVars, resolveVars>>

\* ------------------------------------------------------------ str helpers
\* str.split() with no argument: split on runs of whitespace, no empty tokens
RECURSIVE SplitAcc(_, _)
SplitAcc(s, cur) ==
    IF s = <<>> THEN (IF cur = <<>> THEN <<>> ELSE <<cur>>)
    ELSE IF Head(s) = " "
         THEN (IF cur = <<>> THEN SplitAcc(Tail(s), <<>>)
               ELSE <<cur>> \o SplitAcc(Tail(s), <<>>))
         ELSE SplitAcc(Tail(s), Append(cur, Head(s)))

split(s) == SplitAcc(s, <<>>)

\* a replace that drops the first occurrence only (str.replace(old, '', 1))
RECURSIVE replace_first(_, _)
replace_first(text, old) ==
    IF Len(text) < Len(old) THEN text
    ELSE IF SubSeq(text, 1, Len(old)) = old
         THEN SubSeq(text, Len(old) + 1, Len(text))
         ELSE <<Head(text)>> \o replace_first(Tail(text), old)

\* str.replace(old, ''): drop every left-to-right non-overlapping occurrence
RECURSIVE replace(_, _)
replace(text, old) ==
    IF Len(text) < Len(old) THEN text
    ELSE IF SubSeq(text, 1, Len(old)) = old
         THEN replace(SubSeq(text, Len(old) + 1, Len(text)), old)
         ELSE <<Head(text)>> \o replace(Tail(text), old)

\* the loop of clean_text: one replace per token, each over the previous result
RECURSIVE CleanWith(_, _)
CleanWith(text, chars) ==
    IF chars = <<>> THEN text
    ELSE CleanWith(replace(text, Head(chars)), Tail(chars))

clean_text(text) == CleanWith(text, split(chars_to_remove))

\* str.strip(): drop leading and trailing whitespace
RECURSIVE lstrip(_)
lstrip(s) == IF s # <<>> /\ Head(s) = " " THEN lstrip(Tail(s)) ELSE s

RECURSIVE rstrip(_)
rstrip(s) ==
    IF s # <<>> /\ s[Len(s)] = " " THEN rstrip(SubSeq(s, 1, Len(s) - 1)) ELSE s

strip(s) == rstrip(lstrip(s))

\* ---------------------------------------------- specification: the cleaner
CleanInit ==
    /\ text_in \in StringsUpTo(MaxTextLen)
    /\ chars_to_remove \in StringsUpTo(MaxFilterLen)
    /\ clean1 = <<>>
    /\ clean2 = <<>>
    /\ cpc = 0

CleanOnce ==
    /\ cpc = 0
    /\ clean1' = clean_text(text_in)
    /\ cpc' = 1
    /\ UNCHANGED <<text_in, clean2, chars_to_remove, notCleaner>>

CleanTwice ==
    /\ cpc = 1
    /\ clean2' = clean_text(clean1)
    /\ cpc' = 2
    /\ UNCHANGED <<text_in, clean1, chars_to_remove, notCleaner>>

CleanNext == CleanOnce \/ CleanTwice

\* ------------------------------------------------ the engine's vocabulary
\* start and end times the engine reports, in milliseconds
Times == {0, 500, 61500}
\* texts of the words and segments the engine reports
EngineTexts == {<<"a">>, <<"b">>, <<" ">>, <<" ", "a">>, <<"a", "a", "a", "a">>}
\* filter strings tried with the writers
WriterFilters == {<<>>, <<"b">>}

\* format_timestamp: HH:MM:SS,mmm as the four numbers printed
format_timestamp(ms) ==
    <<ms \div 3600000, (ms % 3600000) \div 60000, (ms % 60000) \div 1000, ms % 1000>>

\* ------------------------------------------------------- create_word_srt
\* the overflow test with the new word left out of the length
OverflowsBufferOnly(text, cleaned_word) == Len(text) > char_limit

\* the overflow test of the packing loop
Overflows(text, cleaned_word) == Len(text \o cleaned_word) > char_limit

Cue(index, start, end, text, blank) ==
    [index |-> index, start |-> format_timestamp(start), end |-> format_timestamp(end),
     text |-> text, blank |-> blank]

create_word_srt_enter ==
    /\ wpc = "start"
    /\ current_text' = <<>>
    /\ current_start' = NoStart
    /\ subtitle_count' = 1
    /\ f_open' = TRUE
    /\ out' = <<>>
    /\ wpc' = "word_loop"
    /\ cur_words' = <<>> /\ packed' = <<>> /\ consumed' = <<>>
    /\ UNCHANGED <<notWriter, char_limit, chars_to_remove, segment, n_segs, n_words, last_start,
                   contrib_end>>

\* `for segment in result['segments']`: the next segment is bound
WordNextSegment(end) ==
    /\ wpc = "word_loop"
    /\ n_segs < MaxSegs
    /\ segment' = [end |-> end]
    /\ n_segs' = n_segs + 1
    /\ UNCHANGED <<notWriter, char_limit, chars_to_remove, wpc, current_text, current_start,
                   subtitle_count, out, f_open, n_words, last_start, cur_words, packed,
                   consumed, contrib_end>>

\* one iteration of `for word in segment['words']`.  The engine's words come
\* with starts that never decrease and that are not after their segment's end.
WordNextWord(start, text) ==
    /\ wpc = "word_loop"
    /\ segment # NoSegment
    /\ n_words < MaxWords
    /\ last_start <= start /\ start <= segment.end
    /\ n_words' = n_words + 1
    /\ last_start' = start
    /\ LET cleaned_word == clean_text(text)
           pending_start == IF current_start = NoStart THEN start ELSE current_start
       IN  IF strip(cleaned_word) = <<>>
           THEN UNCHANGED <<current_text, current_start, subtitle_count, out, cur_words,
                            packed, consumed, contrib_end>>
           ELSE /\ consumed' = Append(consumed, cleaned_word)
                /\ contrib_end' = segment.end
                /\ IF Overflows(current_text, cleaned_word)
                   THEN /\ out' = Append(out, Cue(subtitle_count, pending_start, start,
                                                  strip(current_text), TRUE))
                        /\ packed' = Append(packed, cur_words)
                        /\ subtitle_count' = subtitle_count + 1
                        /\ current_text' = cleaned_word \o <<" ">>
                        /\ current_start' = start
                        /\ cur_words' = <<cleaned_word>>
                   ELSE /\ current_text' = current_text \o cleaned_word \o <<" ">>
                        /\ current_start' = pending_start
                        /\ cur_words' = Append(cur_words, cleaned_word)
                        /\ UNCHANGED <<out, packed, subtitle_count>>
    /\ UNCHANGED <<notWriter, char_limit, chars_to_remove, wpc, segment, f_open, n_segs>>

\* the loops are over: the trailing cue, then the `with` block closes f
WordExit ==
    /\ wpc = "word_loop"
    /\ IF current_text # <<>>
       THEN /\ out' = Append(out, Cue(subtitle_count, current_start, segment.end,
                                      strip(current_text), FALSE))
            /\ packed' = Append(packed, cur_words)
       ELSE UNCHANGED <<out, packed>>
    /\ f_open' = FALSE
    /\ wpc' = "word_done"
    /\ UNCHANGED <<notWriter, char_limit, chars_to_remove, segment, current_text, current_start,
                   subtitle_count, n_segs, n_words, last_start, cur_words, consumed,
                   contrib_end>>

\* --------------------------------------------------- create_sentence_srt
\* a counter that also advances on a skipped segment
sentence_count_always(count, cleaned_text) == count + 1

\* subtitle_count after one segment: it advances only when a cue was written
sentence_count_after(count, cleaned_text) ==
    IF cleaned_text = <<>> THEN count ELSE count + 1

create_sentence_srt_enter ==
    /\ wpc = "start"
    /\ subtitle_count' = 1
    /\ f_open' = TRUE
    /\ out' = <<>>
    /\ wpc' = "sent_loop"
    /\ UNCHANGED <<notWriter, char_limit, chars_to_remove, segment, current_text, current_start,
                   n_segs, n_words, last_start, cur_words, packed, consumed, contrib_end>>

\* one iteration of `for segment in result['segments']`.  The engine's segments
\* come with starts that never decrease and with end >= start.
SentNextSegment(start, end, text) ==
    /\ wpc = "sent_loop"
    /\ n_segs < MaxSegs
    /\ last_start <= start /\ start <= end
    /\ segment' = [start |-> start, end |-> end, text |-> text]
    /\ n_segs' = n_segs + 1
    /\ last_start' = start
    /\ LET cleaned_text == strip(clean_text(text))
       IN  /\ out' = IF cleaned_text = <<>> THEN out
                     ELSE Append(out, Cue(subtitle_count, start, end, cleaned_text, TRUE))
           /\ subtitle_count' = sentence_count_after(subtitle_count, cleaned_text)
    /\ UNCHANGED <<notWriter, char_limit, chars_to_remove, wpc, current_text, current_start, f_open,
                   n_words, cur_words, packed, consumed, contrib_end>>

SentExit ==
    /\ wpc = "sent_loop"
    /\ f_open' = FALSE
    /\ wpc' = "sent_done"
    /\ UNCHANGED <<notWriter, char_limit, chars_to_remove, segment, current_text, current_start,
                   subtitle_count, out, n_segs, n_words, last_start, cur_words, packed,
                   consumed, contrib_end>>

WriterInit ==
    /\ char_limit \in 1..MaxLimit
    /\ chars_to_remove \in WriterFilters
    /\ wpc = "start" /\ segment = NoSegment /\ current_text = <<>>
    /\ current_start = NoStart /\ subtitle_count = 0 /\ out = <<>> /\ f_open = FALSE
    /\ n_segs = 0 /\ n_words = 0 /\ last_start = 0 /\ cur_words = <<>> /\ packed = <<>>
    /\ consumed = <<>> /\ contrib_end = NoStart

WriterNext ==
    \/ create_word_srt_enter
    \/ \E end \in Times : WordNextSegment(end)
    \/ \E start \in Times, text \in EngineTexts : WordNextWord(start, text)
    \/ WordExit
    \/ create_sentence_srt_enter
    \/ \E start \in Times, end \in Times, text \in EngineTexts : SentNextSegment(start, end, text)
    \/ SentExit

\* --------------------------------------------------- get_unique_filename
\* A path is its parent, its stem (a string) and its suffix; pathlib splits it.
DigitChars == <<"0", "1", "2", "3", "4", "5", "6", "7", "8", "9">>
Digits == {DigitChars[k] : k \in DOMAIN DigitChars}
DigitVal(c) == CHOOSE d \in 0..9 : DigitChars[d + 1] = c

\* int(): a run of decimal digits to its value
RECURSIVE ParseInt(_)
ParseInt(ds) ==
    IF ds = <<>> THEN 0
    ELSE ParseInt(SubSeq(ds, 1, Len(ds) - 1)) * 10 + DigitVal(ds[Len(ds)])

\* the decimal digits an f-string prints for a non-negative integer
RECURSIVE Decimal(_)
Decimal(n) ==
    IF n < 10 THEN <<DigitChars[n + 1]>>
    ELSE Decimal(n \div 10) \o <<DigitChars[(n % 10) + 1]>>

\* the text "(digits)" with at least one digit
IsCounterGroup(r) ==
    /\ Len(r) >= 3
    /\ r[1] = "(" /\ r[Len(r)] = ")"
    /\ \A k \in 2..(Len(r) - 1) : r[k] \in Digits

\* re.match(r"(.*?)\((\d+)\)$", stem): the shortest prefix followed by "(digits)"
\* up to the end; ok is FALSE when there is no match
match(stem) ==
    LET starts == {k \in 0..Len(stem) : IsCounterGroup(SubSeq(stem, k + 1, Len(stem)))}
    IN  IF starts = {} THEN [ok |-> FALSE, base |-> <<>>, digits |-> <<>>]
        ELSE LET k == CHOOSE m \in starts : \A o \in starts : m <= o
             IN  [ok |-> TRUE, base |-> SubSeq(stem, 1, k),
                  digits |-> SubSeq(stem, k + 2, Len(stem) - 1)]

\* f"{base_name}({counter + 1})"
Increment(stem) ==
    LET m == match(stem)
    IN  m.base \o <<"(">> \o Decimal(ParseInt(m.digits) + 1) \o <<")">>

\* the first candidate: the counter advanced, or "(1)" appended
FirstStem(stem) == IF match(stem).ok THEN Increment(stem) ELSE stem \o <<"(", "1", ")">>

exists(new_path) == new_path \in DOMAIN fs

\* `while new_path.exists()`: advance the counter until the path is free
RECURSIVE Probe(_)
Probe(new_path) ==
    IF exists(new_path) THEN Probe([new_path EXCEPT !.stem = Increment(new_path.stem)])
    ELSE new_path

\* the first candidate returned unchecked (no `while new_path.exists()`)
get_unique_filename_unchecked(filepath) == [filepath EXCEPT !.stem = FirstStem(filepath.stem)]

get_unique_filename(filepath) == Probe([filepath EXCEPT !.stem = FirstStem(filepath.stem)])

\* content of a file that holds `n` cues
FileOf(n, closed) == [cues |-> n, closed |-> closed]

\* ------------------------------------------- specification: the resolver
OutPath(stem) == [parent |-> "out", stem |-> stem, suffix |-> ".srt"]

\* stems of the files on disk at the start
InitialStems ==
    {<<"x", "(", "1", ")">>, <<"x", "(", "2", ")">>, <<"x", "(", "1", "0", ")">>,
     <<"x", "(", ")", "(", "1", ")">>}
\* stems of the paths handed to get_unique_filename
InputStems ==
    {<<"x">>, <<"x", "(", "1", ")">>, <<"x", "(", "9", ")">>, <<"x", "(", ")">>,
     <<"x", "(", "0", "1", ")">>}

NoPath == [none |-> TRUE]

ResolveInit ==
    /\ \E S \in SUBSET InitialStems : fs = [q \in {OutPath(t) : t \in S} |-> FileOf(0, TRUE)]
    /\ calls = <<>>
    /\ pending = NoPath

\* one call of get_unique_filename
ResolveCall(filepath) ==
    /\ pending = NoPath
    /\ Len(calls) < MaxCalls
    /\ LET r == get_unique_filename(filepath)
       IN  /\ calls' = Append(calls, [in |-> filepath, out |-> r, existed |-> exists(r)])
           /\ pending' = r
    /\ UNCHANGED <<fs, notResolver>>

\* the caller creates the file at the returned path (open(output_file, "w"))
ResolveCreate ==
    /\ pending # NoPath
    /\ fs' = [q \in DOMAIN fs \cup {pending} |-> IF q = pending THEN FileOf(0, TRUE) ELSE fs[q]]
    /\ pending' = NoPath
    /\ UNCHANGED <<calls, notResolver>>

ResolveNext ==
    \/ \E t \in InputStems : ResolveCall(OutPath(t))
    \/ ResolveCreate

\* ------------------------------------------------------------ transcribe
\* One invocation of the handler.  A writer is followed from outside: it opens
\* the file, writes the cues of the result one by one, and closes.
\* self.root.update() is a redraw; no other handler runs inside it.
NoError == "no error"
Completed == "Transcription completed!"
PreconditionMessages ==
    {"Please select input files", "Please select output folder",
     "Please select at least one transcription mode"}
\* str(e) of the exceptions the engine and the file system raise
ExceptionTexts == {"model error", "io error"}

\* the guards without the test of the two modes
precondition_error_no_mode_test ==
    IF files = <<>> THEN "Please select input files"
    ELSE IF output_dir = "" THEN "Please select output folder"
    ELSE NoError

\* the three guards at the head of transcribe, in order
precondition_error ==
    IF files = <<>> THEN "Please select input files"
    ELSE IF output_dir = "" THEN "Please select output folder"
    ELSE IF ~(word_level_var \/ sentence_level_var)
         THEN "Please select at least one transcription mode"
    ELSE NoError

\* the k-th input file; base_filename is its name without the extension
InputFile(k) == [name |-> <<"v">> \o Decimal(k), ext |-> ".mp4"]
base_filename(file) == file.name

ModeSuffix(m) == IF m = "word" THEN "_cropped" ELSE "_full"
ModeOn(m) == IF m = "word" THEN word_level_var ELSE sentence_level_var

\* os.path.join(self.output_dir, f"{base_filename}_cropped.srt"), as pathlib splits it
DesiredPath(file, m) ==
    [parent |-> output_dir, stem |-> base_filename(file) \o <<ModeSuffix(m)>>,
     suffix |-> ".srt"]

Event(ev) ==
    [ev |-> ev, i |-> i, mode |-> mode, path |-> path, cues |-> result, text |-> ""]

\* an except clause inside the loop: the batch goes on with the next step
after_except_continue == "progress"

\* where the handler stands after `except Exception as e`
after_except == "returned"

\* the handle left open when an exception leaves the writer
handles_leaked == handles

\* the handles open after the `with` block is left by an exception
handles_after_raise == {}

transcribe ==
    /\ pc = "start"
    /\ IF precondition_error # NoError
       THEN /\ error_var' = precondition_error
            /\ pc' = "returned"
       ELSE /\ pc' = "load"
            /\ UNCHANGED error_var
    /\ UNCHANGED <<files, output_dir, word_level_var, sentence_level_var, progress, mode, i,
                   total_files, word_model, sentence_model, result, path, handles, log,
                   failed_at, fs, notBatch>>

\* the two load_model calls, total_files, and the loop is entered
LoadModels ==
    /\ pc = "load"
    /\ word_model' = word_level_var
    /\ sentence_model' = sentence_level_var
    /\ total_files' = Len(files)
    /\ i' = 1
    /\ mode' = "word"
    /\ pc' = "engine"
    /\ UNCHANGED <<files, output_dir, word_level_var, sentence_level_var, error_var,
                   progress, result, path, handles, log, failed_at, fs, notBatch>>

\* `if self.word_level_var.get():` (or the sentence one) and the engine's transcribe
EngineTranscribe ==
    /\ pc = "engine"
    /\ IF ModeOn(mode)
       THEN /\ \E n \in 0..MaxCues : result' = n
            /\ path' = NoPath
            /\ log' = Append(log, [Event("engine") EXCEPT !.path = NoPath, !.cues = 0])
            /\ pc' = "resolve"
            /\ UNCHANGED mode
       ELSE /\ IF mode = "word" THEN mode' = "sentence" /\ pc' = "engine"
                                ELSE mode' = mode /\ pc' = "progress"
            /\ UNCHANGED <<result, path, log>>
    /\ UNCHANGED <<files, output_dir, word_level_var, sentence_level_var, error_var,
                   progress, i, total_files, word_model, sentence_model, handles,
                   failed_at, fs, notBatch>>

ResolvePath ==
    /\ pc = "resolve"
    /\ path' = get_unique_filename(DesiredPath(files[i], mode))
    /\ log' = Append(log, [Event("resolve") EXCEPT !.path = path', !.cues = 0])
    /\ pc' = "open"
    /\ UNCHANGED <<files, output_dir, word_level_var, sentence_level_var, error_var,
                   progress, mode, i, total_files, word_model, sentence_model, result,
                   handles, failed_at, fs, notBatch>>

\* open(output_file, "w", ...): the file is created, or truncated
OpenOutput ==
    /\ pc = "open"
    /\ fs' = [q \in DOMAIN fs \cup {path} |-> IF q = path THEN FileOf(0, FALSE) ELSE fs[q]]
    /\ handles' = handles \cup {path}
    /\ log' = Append(log, [Event("open") EXCEPT !.cues = 0])
    /\ pc' = "write"
    /\ UNCHANGED <<files, output_dir, word_level_var, sentence_level_var, error_var,
                   progress, mode, i, total_files, word_model, sentence_model, result,
                   path, failed_at, notBatch>>

WriteCue ==
    /\ pc = "write"
    /\ fs[path].cues < result
    /\ fs' = [fs EXCEPT ![path].cues = @ + 1]
    /\ UNCHANGED <<batchVars, notBatch>>

\* the writer returns: the `with` block closes f; then the next half, or the progress
CloseOutput ==
    /\ pc = "write"
    /\ fs[path].cues = result
    /\ fs' = [fs EXCEPT ![path].closed = TRUE]
    /\ handles' = handles \ {path}
    /\ log' = Append(log, Event("close"))
    /\ IF mode = "word" THEN mode' = "sentence" /\ pc' = "engine"
                        ELSE mode' = mode /\ pc' = "progress"
    /\ UNCHANGED <<files, output_dir, word_level_var, sentence_level_var, error_var,
                   progress, i, total_files, word_model, sentence_model, result, path,
                   failed_at, notBatch>>

\* the progress value (its integer part) and root.update(), then the next
\* file or the end of the loop
ReportProgress ==
    /\ pc = "progress"
    /\ progress' = (i * 100) \div total_files
    /\ IF i < total_files
       THEN i' = i + 1 /\ mode' = "word" /\ pc' = "engine"
       ELSE pc' = "complete" /\ UNCHANGED <<i, mode>>
    /\ UNCHANGED <<files, output_dir, word_level_var, sentence_level_var, error_var,
                   total_files, word_model, sentence_model, result, path, handles, log,
                   failed_at, fs, notBatch>>

Complete ==
    /\ pc = "complete"
    /\ error_var' = Completed
    /\ pc' = "returned"
    /\ UNCHANGED <<files, output_dir, word_level_var, sentence_level_var, progress, mode, i,
                   total_files, word_model, sentence_model, result, path, handles, log,
                   failed_at, fs, notBatch>>

\* any step inside the try raises: a `with` block that is open closes f, and
\* `except Exception as e` sets the status message
Raise(e) ==
    /\ pc \in {"load", "engine", "resolve", "open", "write", "progress"}
    /\ pc = "engine" => ModeOn(mode)
    /\ error_var' = e
    /\ failed_at' = Append(failed_at, i)
    /\ handles' = handles_after_raise
    /\ fs' = [q \in DOMAIN fs |-> IF q \in handles /\ q \notin handles'
                                  THEN [fs[q] EXCEPT !.closed = TRUE] ELSE fs[q]]
    /\ log' = Append(log, [Event("raise") EXCEPT !.path = NoPath, !.cues = 0, !.text = e])
    /\ pc' = after_except
    /\ UNCHANGED <<files, output_dir, word_level_var, sentence_level_var, progress, mode, i,
                   total_files, word_model, sentence_model, result, path, notBatch>>

\* files already in the output folder when the handler starts
InitialOutputs ==
    {[parent |-> "out", stem |-> <<"v", "1", "_cropped", "(", "1", ")">>, suffix |-> ".srt"],
     [parent |-> "out", stem |-> <<"v", "1", "_full", "(", "1", ")">>, suffix |-> ".srt"]}

BatchInit ==
    /\ \E n \in 0..MaxFiles : files = [k \in 1..n |-> InputFile(k)]
    /\ output_dir \in {"", "out"}
    /\ word_level_var \in BOOLEAN
    /\ sentence_level_var \in BOOLEAN
    /\ error_var = ""
    /\ progress \in {0, 100}
    /\ pc = "start" /\ mode = "word" /\ i = 0 /\ total_files = 0
    /\ word_model = FALSE /\ sentence_model = FALSE
    /\ result = 0 /\ path = NoPath /\ handles = {} /\ log = <<>> /\ failed_at = <<>>
    /\ \E S \in SUBSET InitialOutputs : fs = [q \in S |-> FileOf(1, TRUE)]

BatchNext ==
    \/ transcribe
    \/ LoadModels
    \/ EngineTranscribe
    \/ ResolvePath
    \/ OpenOutput
    \/ WriteCue
    \/ CloseOutput
    \/ ReportProgress
    \/ Complete
    \/ \E e \in ExceptionTexts : Raise(e)

vars == <<chars_to_remove, cleanVars, writerVars, fs, resolveVars, batchVars>>

WriterIdle ==
    /\ char_limit = 0 /\ wpc = None /\ segment = NoSegment /\ current_text = <<>>
    /\ current_start = NoStart /\ subtitle_count = 0 /\ out = <<>> /\ f_open = FALSE
    /\ n_segs = 0 /\ n_words = 0 /\ last_start = 0 /\ cur_words = <<>> /\ packed = <<>>
    /\ consumed = <<>> /\ contrib_end = NoStart

ResolveIdle == calls = <<>> /\ pending = NoPath

CleanIdle == text_in = <<>> /\ clean1 = <<>> /\ clean2 = <<>> /\ cpc = 0

BatchIdle ==
    /\ files = <<>> /\ output_dir = "" /\ word_level_var = FALSE
    /\ sentence_level_var = FALSE /\ error_var = "" /\ progress = 0 /\ pc = None
    /\ mode = "word" /\ i = 0 /\ total_files = 0 /\ word_model = FALSE
    /\ sentence_model = FALSE /\ result = 0 /\ path = NoPath /\ handles = {}
    /\ log = <<>> /\ failed_at = <<>>

NoFiles == fs = <<>>
NoFilter == chars_to_remove = <<>>

CleanSpecInit == CleanInit /\ WriterIdle /\ ResolveIdle /\ BatchIdle /\ NoFiles
SrtSpecInit == WriterInit /\ CleanIdle /\ ResolveIdle /\ BatchIdle /\ NoFiles
ResolveSpecInit == ResolveInit /\ CleanIdle /\ WriterIdle /\ BatchIdle /\ NoFilter
BatchSpecInit == BatchInit /\ CleanIdle /\ WriterIdle /\ ResolveIdle /\ NoFilter

\* the cleaner applied twice to one text
SpecClean == CleanSpecInit /\ [][CleanNext]_vars

\* one call of a writer, over every engine result within the bounds
SpecSrt == SrtSpecInit /\ [][WriterNext]_vars

\* calls of get_unique_filename, each result created before the next call
SpecResolve == ResolveSpecInit /\ [][ResolveNext]_vars

\* one invocation of transcribe
Spec == BatchSpecInit /\ [][BatchNext]_vars

\* ------------------------------------------------------------ claims: C8
SingleCharTokens == \A k \in DOMAIN split(chars_to_remove) : Len(split(chars_to_remove)[k]) = 1

\* C8 (as stated): cleaning twice equals cleaning once, for every text and
\* every token list split from a filter string.
C8_IdempotentAnyTokens == cpc = 2 => clean2 = clean1

\* C8 (amended): cleaning twice equals cleaning once whenever every removal
\* token is a single character.
C8_IdempotentSingleChars == (cpc = 2 /\ SingleCharTokens) => clean2 = clean1

C8_Witness ==
    /\ cpc = 2
    /\ SingleCharTokens
    /\ Len(split(chars_to_remove)) = 2
    /\ split(chars_to_remove)[1] # split(chars_to_remove)[2]
    /\ Len(clean1) < Len(text_in)
    /\ clean1 # <<>>
    /\ clean2 = clean1

\* ------------------------------------------------- claims on the writers
InWord == wpc \in {"word_loop", "word_done"}
InSentence == wpc \in {"sent_loop", "sent_done"}

\* lexicographic order of two formatted timestamps
TsLeq(a, b) ==
    \/ a[1] < b[1]
    \/ a[1] = b[1] /\ a[2] < b[2]
    \/ a[1] = b[1] /\ a[2] = b[2] /\ a[3] < b[3]
    \/ a[1] = b[1] /\ a[2] = b[2] /\ a[3] = b[3] /\ a[4] <= b[4]

RECURSIVE Flatten(_)
Flatten(ss) == IF ss = <<>> THEN <<>> ELSE Head(ss) \o Flatten(Tail(ss))

\* C1: in either writer the cue indices written so far are exactly 1, 2, ..., k
\* in that order, whatever was skipped.
C1_IndicesContiguous ==
    (InWord \/ InSentence) => \A k \in DOMAIN out : out[k].index = k

C1_Witness ==
    /\ wpc = "word_done"
    /\ Len(out) >= 2
    /\ Len(consumed) < n_words

\* C2: a word-level cue packed from two or more words is at most char_limit
\* long; a longer cue is one single word that alone exceeds char_limit; such a
\* word is never packed with another; and at the end the cues hold every
\* non-empty cleaned word exactly once, in order and unsplit.
C2_BudgetRespected ==
    InWord =>
        /\ \A k \in DOMAIN out :
              /\ Len(packed[k]) >= 2 => Len(out[k].text) <= char_limit
              /\ Len(out[k].text) > char_limit =>
                    /\ Len(packed[k]) = 1
                    /\ Len(packed[k][1]) > char_limit
              /\ Len(packed[k]) = 1 => out[k].text = strip(packed[k][1])
              /\ \A j \in DOMAIN packed[k] :
                    Len(packed[k][j]) > char_limit => Len(packed[k]) = 1
        /\ wpc = "word_done" => Flatten(packed) = consumed

C2_Witness ==
    /\ wpc = "word_done"
    /\ \E k \in DOMAIN out : Len(packed[k]) >= 2
    /\ \E k \in DOMAIN out : Len(out[k].text) > char_limit

\* C3 (as stated): the trailing cue of a word-level file ends at the end of
\* the last segment that gave a non-empty cleaned word.
C3_FinalEndIsLastContributing ==
    (wpc = "word_done" /\ out # <<>> /\ ~out[Len(out)].blank) =>
        out[Len(out)].end = format_timestamp(contrib_end)

\* C4 (as stated): cue starts never decrease, no cue ends before it starts,
\* and in a word-level file each cue that has a successor ends where the
\* successor starts.
C4_TimesOrdered ==
    (InWord \/ InSentence) =>
        \A k \in DOMAIN out :
            /\ TsLeq(out[k].start, out[k].end)
            /\ k < Len(out) => TsLeq(out[k].start, out[k + 1].start)
            /\ (InWord /\ k < Len(out)) => out[k].end = out[k + 1].start

\* C10 (as stated): no word-level cue has an empty text, and there are never
\* more cues than non-empty cleaned words.
C10_NoEmptyCue ==
    InWord =>
        /\ \A k \in DOMAIN out : out[k].text # <<>>
        /\ Len(out) <= Len(consumed)

\* ------------------------------------------------ claims on the resolver
\* the number n of the "(n)" a stem ends with
CounterOf(stem) == ParseInt(match(stem).digits)

\* C7: every path get_unique_filename returned differs from the path it was
\* given, ends its stem with "(n)", and did not exist when it was returned; and
\* with every returned path created before the next call, the n of successive
\* results for one input path strictly increase.
C7_FreshSuffixedIncreasing ==
    \A k \in DOMAIN calls :
        /\ calls[k].out # calls[k].in
        /\ \E m \in 1..Len(calls[k].out.stem) :
              IsCounterGroup(SubSeq(calls[k].out.stem, m, Len(calls[k].out.stem)))
        /\ ~calls[k].existed
        /\ \A j \in 1..(k - 1) :
              calls[j].in = calls[k].in =>
                  CounterOf(calls[j].out.stem) < CounterOf(calls[k].out.stem)

C7_Witness ==
    \E j, k \in DOMAIN calls :
        /\ j < k
        /\ calls[j].in = calls[k].in
        /\ CounterOf(calls[k].out.stem) > CounterOf(calls[j].out.stem) + 1
        /\ pending = NoPath

\* ------------------------------------------------ claims on transcribe
ModeRank(m) == IF m = "word" THEN 1 ELSE 2
EvRank(ev) ==
    CASE ev = "engine" -> 1 [] ev = "resolve" -> 2 [] ev = "open" -> 3
      [] ev = "close" -> 4 [] OTHER -> 5

\* event a belongs to an earlier file, or to the earlier half of the same file,
\* or is an earlier step of the same output
Before(a, b) ==
    \/ a.i < b.i
    \/ a.i = b.i /\ ModeRank(a.mode) < ModeRank(b.mode)
    \/ a.i = b.i /\ a.mode = b.mode /\ EvRank(a.ev) < EvRank(b.ev)

ClosedEarlier(k, j, m) ==
    \E c \in 1..(k - 1) : log[c].ev = "close" /\ log[c].i = j /\ log[c].mode = m

\* C5: once a step has raised while handling input file k, the handler has
\* returned, the status message is the exception's text and not the completion
\* message, the raise is the last thing that happened, nothing was done for a
\* file after k, no step ran twice, and every output that was closed is on disk
\* with the content it was closed with.
C5_FailureAbortsBatch ==
    failed_at # <<>> =>
        /\ pc = "returned"
        /\ log # <<>> /\ log[Len(log)].ev = "raise"
        /\ error_var = log[Len(log)].text
        /\ error_var \in ExceptionTexts /\ error_var # Completed
        /\ \A k \in DOMAIN log : log[k].i <= failed_at[1]
        /\ \A j, k \in DOMAIN log :
              j < k => <<log[j].ev, log[j].i, log[j].mode>> # <<log[k].ev, log[k].i, log[k].mode>>
        /\ \A k \in DOMAIN log :
              log[k].ev = "close" =>
                  /\ log[k].path \in DOMAIN fs
                  /\ fs[log[k].path] = FileOf(log[k].cues, TRUE)

C5_Witness ==
    /\ failed_at = <<2>>
    /\ pc = "returned"
    /\ \E k \in DOMAIN log : log[k].ev = "close" /\ log[k].i = 1 /\ log[k].cues = 1
    /\ \E k \in DOMAIN log : log[k].ev = "open" /\ log[k].i = 2

Rejecting == files = <<>> \/ output_dir = "" \/ ~(word_level_var \/ sentence_level_var)

\* C6: a transcribe started without input files, without an output folder or
\* without a mode only sets a status message: it returns with no model loaded,
\* no engine call, no path resolved, no file touched and the progress as it was.
C6_RejectedDoesNothing ==
    [][(pc = "start" /\ Rejecting) =>
          /\ pc' = "returned"
          /\ error_var' \in PreconditionMessages
          /\ UNCHANGED <<fs, progress, word_model, sentence_model, result, path, handles,
                         log, failed_at>>]_vars

C6_Witness ==
    /\ pc = "returned"
    /\ files # <<>> /\ output_dir # ""
    /\ error_var = "Please select at least one transcription mode"
    /\ progress = 100
    /\ log = <<>> /\ ~word_model /\ ~sentence_model

\* C9: the steps of a batch run happen in order of input file, word-level half
\* before sentence-level half, each output resolved, opened and closed in that
\* order; every output of an earlier file, and the word-level output of the
\* same file, is closed before a later one is begun; at most one handle is open,
\* only while its writer runs; and every file whose writer was left, normally
\* or by an exception, with or without cues, is closed.
C9_SequentialAndClosed ==
    /\ Cardinality(handles) <= 1
    /\ handles # {} => (pc = "write" /\ handles = {path})
    /\ \A q \in DOMAIN fs : fs[q].closed <=> q \notin handles
    /\ \A k \in 1..(Len(log) - 1) : Before(log[k], log[k + 1])
    /\ \A k \in DOMAIN log :
          /\ \A j \in 1..(log[k].i - 1) :
                \A m \in {"word", "sentence"} : ModeOn(m) => ClosedEarlier(k, j, m)
          /\ (log[k].mode = "sentence" /\ log[k].ev # "raise" /\ word_level_var) =>
                ClosedEarlier(k, log[k].i, "word")

C9_Witness ==
    /\ pc = "returned"
    /\ word_level_var /\ sentence_level_var
    /\ failed_at = <<2>>
    /\ log[Len(log) - 1].ev = "open" /\ log[Len(log) - 1].mode = "sentence"
    /\ \E k \in DOMAIN log : log[k].ev = "close" /\ log[k].cues = 0
    /\ \E k \in DOMAIN log : log[k].ev = "close" /\ log[k].cues = 1
    /\ \A q \in DOMAIN fs : fs[q].closed
====
